---- MODULE Spec2Model ----
(***************************************************************************)
(* A model of elnortescrapper/scrapper.py: the Scrapper class.            *)
(*                                                                         *)
(*   _request_helper        the Fetcher: bounded retry, random pauses      *)
(*   _venta_casas_ad_to_df  the Field Parser: thirteen regex matchers      *)
(*   _pages_of_ads          the Paginator: a generator of listing pages    *)
(*   _ads_in_a_page         the Ad Extractor: a generator of ad texts      *)
(*   scrap                  the orchestrator                               *)
(*                                                                         *)
(* Text is a sequence of symbols.  A symbol is one character ("1", ",",    *)
(* " ", "\n", ...) or one of the literal words the regular expressions of  *)
(* the parser look for ("ZONA", "Planta", "m²", ...), taken as a unit.     *)
(* An optional string (a str or None) is a sequence of length 0 or 1:      *)
(* <<>> is None, <<s>> is the string s.                                    *)
(***************************************************************************)
EXTENDS Integers, Sequences, FiniteSets, TLC

VARIABLES
    \* ---- scrap, _pages_of_ads, _ads_in_a_page
    pc,             \* where scrap is: "idle", "pages", "ads", "returned", "raised"
    category,       \* argument of scrap
    ad_limit,       \* argument of scrap: None or an integer
    initial_page,   \* argument of scrap
    page_number,    \* local of _pages_of_ads
    elems,          \* the elements of the page that _ads_in_a_page has still to visit:
                    \* the children of the tds it does not skip
    final_df,       \* the rows accumulated so far
    scrapped_ads,   \* local of scrap
    remaining_ads,  \* local of scrap
    error,          \* the exception that left scrap, "" when none
    requests,       \* history: the URLs given to _request_helper, in order
    fetched,        \* history: what each listing request got, and if it was yielded
    returned,       \* the value scrap returned: None until it returns
    served,         \* history: ad children ('$' in the text) in the yielded pages
    at_limit,       \* history: Len(requests) when the limit was reached, -1 before
    fetch_failed,   \* history: some _request_helper call raised
    \* ---- _request_helper
    rh_pc,              \* "idle", "while", "returned", "raised"
    url,                \* argument of _request_helper
    remaining_attempts, \* local
    success,            \* local
    response,           \* local: <<>> when unbound, else <<the attempt that got it>>
    events,             \* history: "get_ok", "get_fail", "backoff", "pause"
    slept,              \* history: the argument of the last time.sleep, 0 when none
    \* ---- _venta_casas_ad_to_df
    ad,             \* argument: the ad as text
    df,             \* the returned 1-row DataFrame, <<>> before the call
    \* ---- the body of _ads_in_a_page for one ad
    ad_page,        \* what _request_helper(ad_url) returned: <<>> before, else <<page>>
    ad_as_string    \* the string yielded: <<>> when none, else <<text>>

crawl_vars == <<pc, category, ad_limit, initial_page, page_number, elems,
                final_df, scrapped_ads, remaining_ads, error, requests, fetched,
                returned, served, at_limit, fetch_failed>>
fetch_vars == <<rh_pc, url, remaining_attempts, success, response, events, slept>>
parse_vars == <<ad, df>>
ad_vars == <<ad_page, ad_as_string>>
vars == <<crawl_vars, fetch_vars, parse_vars, ad_vars>>

None == <<>>
Some(s) == <<s>>

Min(S) == CHOOSE x \in S : \A y \in S : x <= y

(***************************************************************************)
(* Regular expressions, as re.search evaluates them: the leftmost match,   *)
(* each repetition greedy, backtracking to shorter repetitions.            *)
(***************************************************************************)
Digit == {"1", "7"}
WordLike == {"ZONA", "COLONIA", "visitas", "Planta", "m²", "de", "Terreno",
             "Recámara", "Baño", "Construcción", "Publicado", "latitude",
             "longitude", "http", "pesos", "x", "LatitudGM", "LongitudGM"}
Punct == {"$", ",", ".", "-", ":", "="}
Blank == {" ", "\n"}
Symbol == Digit \cup WordLike \cup Punct \cup Blank

\* \d, \w, \s and . of Python's re on str patterns
ReD == Digit
ReW == Digit \cup WordLike
ReS == Blank
ReDot == Symbol \ {"\n"}

\* One item of a pattern: a set of symbols, repeated {1}, + or *, inside the
\* capture group or not.
One(S) == [set |-> S, min |-> 1, many |-> FALSE, cap |-> FALSE]
Plus(S) == [set |-> S, min |-> 1, many |-> TRUE, cap |-> FALSE]
Star(S) == [set |-> S, min |-> 0, many |-> TRUE, cap |-> FALSE]
Cap(item) == [item EXCEPT !.cap = TRUE]
Lit(w) == One({w})

\* The longest run of symbols of text from position i that item can take.
Run(item, text, i) ==
    LET left == Len(text) - i + 1
        lim == IF item.many \/ left < 1 THEN left ELSE 1
        bad == {j \in i..(i + lim - 1) : text[j] \notin item.set}
    IN  IF bad = {} THEN lim ELSE Min(bad) - i

RECURSIVE MatchHere(_, _, _, _)
RECURSIVE TryCount(_, _, _, _, _)
\* The match of items k.. of regex at position i of text: the position each item
\* starts at, then the position the match ends at; <<>> when there is none.
MatchHere(regex, k, text, i) ==
    IF k > Len(regex) THEN <<i>>
    ELSE TryCount(regex, k, text, i, Run(regex[k], text, i))

TryCount(regex, k, text, i, n) ==
    IF n < regex[k].min THEN <<>>
    ELSE LET rest == MatchHere(regex, k + 1, text, i + n)
         IN  IF rest # <<>> THEN <<i>> \o rest
             ELSE TryCount(regex, k, text, i, n - 1)

\* re.search(regex, text): None, or the match object (its item boundaries).
ReSearch(regex, text) ==
    LET starts == {i \in 1..(Len(text) + 1) : MatchHere(regex, 1, text, i) # <<>>}
    IN  IF starts = {} THEN None ELSE MatchHere(regex, 1, text, Min(starts))

\* match.group(1): the text the capture group took.
Group1(regex, text, m) ==
    LET caps == {k \in 1..Len(regex) : regex[k].cap}
        first == Min(caps)
        last == CHOOSE k \in caps : \A j \in caps : j <= k
    IN  SubSeq(text, m[first], m[last + 1] - 1)

\* The thirteen patterns of _venta_casas_ad_to_df.
PrecioRe == <<Lit("$"), Cap(Plus({","} \cup Digit)), Cap(Plus(ReS)), Cap(Star(ReW))>>
ZonaRe == <<Lit("ZONA"), Lit(":"), Plus(ReS), Cap(Plus(ReW \cup {" "}))>>
ColoniaRe == <<Lit("COLONIA"), Lit(":"), Plus(ReS), Cap(Plus(ReW \cup {" "}))>>
VisitasRe == <<Cap(Plus(ReD \cup {","})), Plus(ReS), Lit("visitas")>>
PlantasRe == <<Cap(Plus(ReD)), Plus(ReS), Lit("Planta")>>
M2TerrenoRe == <<Cap(Plus(ReD \cup {"."})), Lit("m²"), Plus(ReS), Lit("de"),
                 Plus(ReS), Lit("Terreno")>>
RecamarasRe == <<Cap(Plus(ReD)), Plus(ReS), Lit("Recámara")>>
BanosRe == <<Cap(Plus(ReD \cup {"."})), Plus(ReS), Lit("Baño")>>
M2ConstrRe == <<Cap(Plus(ReD \cup {"."})), Lit("m²"), Plus(ReS), Lit("de"),
                Plus(ReS), Lit("Construcción")>>
FechaPubRe == <<Lit("Publicado"), Plus(ReS \cup ReW), Cap(Lit(" ")), Cap(Plus(ReD)),
                Cap(Lit(" ")), Cap(Lit("de")), Cap(Lit(" ")), Cap(Plus(ReW)),
                Lit("\n")>>
\* [\d+-.] is \d and the characters from '+' to '.': + , - .
LatitudeRe == <<Lit("latitude"), Lit("="), Cap(Plus(ReD \cup {"+", ",", "-", "."})),
               Lit("\n")>>
LongitudeRe == <<Lit("longitude"), Lit("="), Cap(Plus(ReD \cup {"+", ",", "-", "."})),
                Lit("\n")>>
UrlRe == <<Cap(Lit("http")), Cap(Plus(ReDot)), Lit("\n")>>

(***************************************************************************)
(* _venta_casas_ad_to_df                                                   *)
(***************************************************************************)
columns == <<"precio", "zona", "colonia", "visitas", "plantas", "m2_terreno",
             "recámaras", "baños", "m2_constr", "fecha_pub", "latitude",
             "longitude", "url">>

Range(s) == {s[i] : i \in 1..Len(s)}

\* An OrderedDict: its keys in insertion order, and the value of each key.
\* OrderedDict(zip(columns, [None for i in columns]))
DummyDictionary == [keys |-> columns, val |-> [k \in Range(columns) |-> None]]

\* dictionary[key] = value: a new key goes to the end.
SetItem(d, key, value) ==
    IF key \in Range(d.keys)
    THEN [d EXCEPT !.val[key] = value]
    ELSE [keys |-> Append(d.keys, key),
          val |-> [k \in Range(d.keys) \cup {key} |->
                      IF k = key THEN value ELSE d.val[k]]]

\* elif in place of if: a matcher runs only when no earlier one matched.
MatcherMutant(d, key, regex, text) ==
    LET regex_ans == ReSearch(regex, text)
    IN  IF regex_ans # None /\ d = DummyDictionary
        THEN SetItem(d, key, Some(Group1(regex, text, regex_ans)))
        ELSE d

\* regex_ans = re.search(regex, ad); if regex_ans: dictionary[key] = regex_ans.group(1)
Matcher(d, key, regex, text) ==
    LET regex_ans == ReSearch(regex, text)
    IN  IF regex_ans # None
        THEN SetItem(d, key, Some(Group1(regex, text, regex_ans)))
        ELSE d

\* A misspelt key: the bathrooms go to a column of their own.
VentaCasasAdToDfMutant(text) ==
    LET d1 == Matcher(DummyDictionary, "precio", PrecioRe, text)
        d2 == Matcher(d1, "zona", ZonaRe, text)
        d3 == Matcher(d2, "colonia", ColoniaRe, text)
        d4 == Matcher(d3, "visitas", VisitasRe, text)
        d5 == Matcher(d4, "plantas", PlantasRe, text)
        d6 == Matcher(d5, "m2_terreno", M2TerrenoRe, text)
        d7 == Matcher(d6, "recámaras", RecamarasRe, text)
        d8 == Matcher(d7, "banos", BanosRe, text)
        d9 == Matcher(d8, "m2_constr", M2ConstrRe, text)
        d10 == Matcher(d9, "fecha_pub", FechaPubRe, text)
        d11 == Matcher(d10, "latitude", LatitudeRe, text)
        d12 == Matcher(d11, "longitude", LongitudeRe, text)
        d13 == Matcher(d12, "url", UrlRe, text)
    IN  d13

VentaCasasAdToDf(text) ==
    LET d1 == Matcher(DummyDictionary, "precio", PrecioRe, text)
        d2 == Matcher(d1, "zona", ZonaRe, text)
        d3 == Matcher(d2, "colonia", ColoniaRe, text)
        d4 == Matcher(d3, "visitas", VisitasRe, text)
        d5 == Matcher(d4, "plantas", PlantasRe, text)
        d6 == Matcher(d5, "m2_terreno", M2TerrenoRe, text)
        d7 == Matcher(d6, "recámaras", RecamarasRe, text)
        d8 == Matcher(d7, "baños", BanosRe, text)
        d9 == Matcher(d8, "m2_constr", M2ConstrRe, text)
        d10 == Matcher(d9, "fecha_pub", FechaPubRe, text)
        d11 == Matcher(d10, "latitude", LatitudeRe, text)
        d12 == Matcher(d11, "longitude", LongitudeRe, text)
        d13 == Matcher(d12, "url", UrlRe, text)
    IN  d13  \* DataFrame(dictionary, index=[None]): one row, the keys as columns

(***************************************************************************)
(* _request_helper                                                         *)
(***************************************************************************)
RemainingAttempts == 10
Urls == {"listing", "detail"}
BackoffTimes == 5..15       \* random.randint(5, 15)
PauseDraws == 1..10         \* random.randint(1, 10)
PauseTimes == 1..5          \* random.randint(1, 5)

\* The number of requests.get calls so far.
Gets(ev) == Cardinality({i \in 1..Len(ev) : ev[i] \in {"get_ok", "get_fail"}})

\* A wrong test: one turn too many.
LoopConditionMutant == remaining_attempts >= 0 /\ ~success

\* while remaining_attempts and not success
LoopCondition == remaining_attempts # 0 /\ ~success

RequestHelper(u) ==
    /\ rh_pc = "idle"
    /\ rh_pc' = "while"
    /\ url' = u
    /\ remaining_attempts' = RemainingAttempts
    /\ success' = FALSE
    /\ UNCHANGED <<response, events, slept>>
    /\ UNCHANGED <<crawl_vars, parse_vars, ad_vars>>

\* One turn of the loop in which requests.get returns: the try body, then else.
GetReturns ==
    /\ rh_pc = "while"
    /\ LoopCondition
    /\ response' = Some(Gets(events) + 1)
    /\ \E draw \in PauseDraws :
          IF draw = 1
          THEN \E wait_time \in PauseTimes :
                  /\ events' = events \o <<"get_ok", "pause">>
                  /\ slept' = wait_time
          ELSE /\ events' = Append(events, "get_ok")
               /\ slept' = slept
    /\ success' = TRUE
    /\ UNCHANGED <<rh_pc, url, remaining_attempts>>
    /\ UNCHANGED <<crawl_vars, parse_vars, ad_vars>>

\* One turn of the loop in which requests.get raises: the except clause.
GetRaises ==
    /\ rh_pc = "while"
    /\ LoopCondition
    /\ \E waiting_time \in BackoffTimes :
          /\ events' = events \o <<"get_fail", "backoff">>
          /\ slept' = waiting_time
    /\ remaining_attempts' = remaining_attempts - 1
    /\ UNCHANGED <<rh_pc, url, success, response>>
    /\ UNCHANGED <<crawl_vars, parse_vars, ad_vars>>

\* After the loop: raise Exception("Server communication problem") or return.
RequestHelperEnds ==
    /\ rh_pc = "while"
    /\ ~LoopCondition
    /\ rh_pc' = IF ~success THEN "raised" ELSE "returned"
    /\ UNCHANGED <<url, remaining_attempts, success, response, events, slept>>
    /\ UNCHANGED <<crawl_vars, parse_vars, ad_vars>>

FetchIdle ==
    /\ rh_pc = "idle" /\ url = "" /\ remaining_attempts = 0 /\ success = FALSE
    /\ response = None /\ events = <<>> /\ slept = 0

(***************************************************************************)
(* The site: what the server answers.  A listing page is the text nodes of *)
(* div#celda_rut1 (marker) and its td cells; a td is its class attribute   *)
(* and its children; a child is what get_text gives and its hyperlinks.    *)
(* The answer to a request is chosen when the request is made.             *)
(***************************************************************************)
NumPages == 2       \* the listing has at most NumPages pages; later ones say no ads
MaxChildren == 2    \* children of one td
MaxAdLimit == 2     \* the largest ad_limit tried
InitialPages == {1, 2}

\* self._categories: name -> [url, method]; the first and the last of its entries.
Categories ==
    [c \in {"venta_casas_cdmx", "venta_casas_texas"} |->
        [url |-> [base |-> "Resultados-Inmuebles.aspx",
                  plaza |-> IF c = "venta_casas_cdmx" THEN 1 ELSE 34,
                  pagina |-> 1],
         method |-> "_venta_casas_ad_to_df"]]
CategoryNames == DOMAIN Categories \cup {"venta_departamentos_cdmx"}
AdLimits == {None} \cup {Some(n) : n \in 0..MaxAdLimit}

AdUrl == <<"http", ":", "x">>
Children ==
    { [text |-> "none", links |-> <<>>],                    \* get_text raises
      [text |-> "plain", links |-> <<>>],                   \* no '$' in the text
      [text |-> "dollar", links |-> <<<<"http">>, AdUrl>>], \* an ad: image link, ad link
      [text |-> "dollar", links |-> <<AdUrl>>] }            \* '$' and one hyperlink
RECURSIVE SeqsUpTo(_, _)
SeqsUpTo(S, n) ==
    IF n = 0 THEN {<<>>}
    ELSE LET shorter == SeqsUpTo(S, n - 1)
         IN  shorter \cup {Append(q, x) : q \in shorter, x \in S}
\* td.get('class'): the class tokens of a cell
TdClasses == {<<"ar12grisb">>, <<"ar12grisb", "ar12gris">>, <<"ar12gris">>}
Tds == [class : TdClasses, children : SeqsUpTo(Children, MaxChildren)]
NoAdsPage == [marker |-> "No se encontraron avisos", tds |-> <<>>]
Pages ==
    [marker : {"Resultados"}, tds : {<<>>} \cup {<<td>> : td \in Tds}]
        \cup {NoAdsPage, [marker |-> "unparsable", tds |-> <<>>]}
\* What page n of the listing can be.
PagesAt(n) == IF n > NumPages THEN {NoAdsPage} ELSE Pages

\* An ad's page: its blocks, present or not, and str(div) of each div#divMapa.
\* A div names LatitudGM or not, with a value after it or not; LongitudGM too.
LatText == <<"1", ".", "7">>
LonText == <<"-", "7", ".", "1">>
MarkerParts(name, value) == {<<>>, <<name>>, <<name, "=">> \o value}
DivContents ==
    {l \o <<" ">> \o g : l \in MarkerParts("LatitudGM", LatText),
                         g \in MarkerParts("LongitudGM", LonText)}
MaxMapDivs == 2     \* div#divMapa elements in one ad's page
MapDivs == SeqsUpTo(DivContents, MaxMapDivs)
AdPages == [pestanas : BOOLEAN, highlights : BOOLEAN, table : BOOLEAN, mapa : MapDivs]
PestanasText == <<"7", " ", "visitas">>
HighlightsText == <<"ZONA", ":", " ", "x", "COLONIA", ":", " ", "x", "$", "1", ",", "7", " ", "pesos">>
InfoText == <<"x">>
CaracTexts == << <<"1", " ", "Planta">>, <<"7", ".", "1", "m²", " ", "de", " ", "Terreno">> >>

(***************************************************************************)
(* _pages_of_ads                                                           *)
(***************************************************************************)
\* A pattern that matches nothing: the URL stays as it is.
UrlOnPageMutant(url_of_category, n) == url_of_category

\* re.sub('pagina=[\d]+', 'pagina='+str(page_number), url_of_category)
UrlOnPage(url_of_category, n) == [url_of_category EXCEPT !.pagina = n]

\* 'No se encontraron avisos' not in str(last_page_message)
NotLastPage(p) == p.marker # "No se encontraron avisos"

\* html.fromstring(page.content) and tree.xpath(...) raise nothing
Parsable(p) == p.marker # "unparsable"

(***************************************************************************)
(* _ads_in_a_page                                                          *)
(***************************************************************************)
\* 'ar12gris' in the string s
HasAr12gris(s) == s \in {"ar12gris", "ar12grisb"}

\* page_soup.find_all('td', class_='ar12grisb')
FindAllTd(p) == SelectSeq(p.tds, LAMBDA td : "ar12grisb" \in Range(td.class))

\* if 'ar12gris' not in str(td.get('class')): continue
SkipTd(td) == ~ \E i \in 1..Len(td.class) : HasAr12gris(td.class[i])

RECURSIVE Flatten(_)
Flatten(ss) == IF ss = <<>> THEN <<>> ELSE Head(ss) \o Flatten(Tail(ss))

\* The elements the two for loops visit, in order, each with the class of its td.
ElemsOf(p) ==
    LET kept == SelectSeq(FindAllTd(p), LAMBDA td : ~SkipTd(td))
    IN  Flatten([i \in 1..Len(kept) |->
                    [j \in 1..Len(kept[i].children) |->
                        [text |-> kept[i].children[j].text,
                         links |-> kept[i].children[j].links,
                         td |-> kept[i].class]]])

Lines(ts) == Flatten([i \in 1..Len(ts) |-> Append(ts[i], "\n")])

\* 'LatitudGM=([\d+-.]+)' and 'LongitudGM=([\d+-.]+)'
LatitudGMRe == <<Lit("LatitudGM"), Lit("="), Cap(Plus(ReD \cup {"+", ",", "-", "."}))>>
LongitudGMRe == <<Lit("LongitudGM"), Lit("="), Cap(Plus(ReD \cup {"+", ",", "-", "."}))>>

\* if 'LatitudGM' and 'LongitudGM' in div_content: the value of the test is that
\* of 'LongitudGM' in div_content.
HasMarkers(div_content) == "LongitudGM" \in Range(div_content)

RECURSIVE Geolocation(_)
\* The try block of the geolocation: the lines it adds.  When a pattern has no
\* match, re.search(...).group raises AttributeError before either line is added,
\* and except: pass ends the loop over the divs.
Geolocation(divs) ==
    IF divs = <<>> THEN <<>>
    ELSE LET div_content == Head(divs)
             lat == ReSearch(LatitudGMRe, div_content)
             longit == ReSearch(LongitudGMRe, div_content)
         IN  IF HasMarkers(div_content)
             THEN IF lat = None \/ longit = None
                  THEN <<>>
                  ELSE <<"latitude", "=">> \o Group1(LatitudGMRe, div_content, lat)
                           \o <<"\n">> \o
                       <<"longitude", "=">> \o Group1(LongitudGMRe, div_content, longit)
                           \o <<"\n">> \o
                       Geolocation(Tail(divs))
             ELSE Geolocation(Tail(divs))

\* visitas[0], header_zona_colonia_precio[0] or table[0] raises IndexError
BlockMissing(a) == ~a.pestanas \/ ~a.highlights \/ ~a.table

AdAsString(ad_url, a) ==
    ad_url \o <<"\n">> \o PestanasText \o <<"\n">> \o HighlightsText \o <<"\n">> \o
    InfoText \o <<"\n">> \o Lines(CaracTexts) \o Geolocation(a.mapa)

\* The ad pages on which a block is missing, and the texts _ads_in_a_page can
\* yield for an ad_url on the others.  (f @@ <<>> is f, tabulated once.)
RaisingAdPages == {a \in AdPages : BlockMissing(a)}
AdTexts ==
    [ad_url \in {AdUrl} |->
        {AdAsString(ad_url, a) : a \in AdPages \ RaisingAdPages}] @@ <<>>

\* _ad_to_dataframe(ad_text, category), for the ad texts _ads_in_a_page can
\* yield: every category's method is _venta_casas_ad_to_df.
AdToDataframe ==
    [ad_text \in UNION {AdTexts[ad_url] : ad_url \in DOMAIN AdTexts} |->
        VentaCasasAdToDf(ad_text)] @@ <<>>

(***************************************************************************)
(* scrap, with the two generators it drives                                *)
(***************************************************************************)
UnrecognizedCategory == "Unrecognized category. Try the atribute 'categories'"
DetectionFailed == "Detection of last page of ads failed"
CommunicationProblem == "Server communication problem"
IndexError == "IndexError: list index out of range"

\* A wrong test: only the empty name is turned away.
UnrecognizedMutant(c) == c = ""

\* if category not in self._categories.keys()
Unrecognized(c) == c \notin DOMAIN Categories

\* if ad_limit and scrapped_ads >= ad_limit
LimitReached(limit, n) == limit # None /\ limit[1] # 0 /\ n >= limit[1]

ListingRequest(c, n) == [kind |-> "listing", url |-> UrlOnPage(Categories[c].url, n)]
AdRequest(ad_url) == [kind |-> "ad", url |-> ad_url]

Raise(e) ==
    /\ pc' = "raised"
    /\ error' = e

\* scrap(category, ad_limit, initial_page), up to the first for statement
Scrap(c, limit, p) ==
    /\ pc = "idle"
    /\ category' = c
    /\ ad_limit' = limit
    /\ initial_page' = p
    /\ IF Unrecognized(c)
       THEN /\ Raise(UnrecognizedCategory)
            /\ UNCHANGED page_number
       ELSE /\ pc' = "pages"
            /\ page_number' = p
            /\ error' = error
    /\ UNCHANGED <<elems, final_df, scrapped_ads, remaining_ads, requests,
                   fetched, returned, served, at_limit, fetch_failed>>
    /\ UNCHANGED <<fetch_vars, parse_vars, ad_vars>>

\* The failure taken as the end of the listing: scrap returns what it has.
PageFetchRaisesMutant ==
    /\ pc = "pages"
    /\ page_number' = page_number + 1
    /\ requests' = Append(requests, [kind |-> "listing",
                                     url |-> [Categories[category].url
                                                EXCEPT !.pagina = page_number]])
    /\ fetched' = Append(fetched, [got |-> "raised", yielded |-> FALSE])
    /\ fetch_failed' = TRUE
    /\ pc' = "returned"
    /\ returned' = Some(final_df)
    /\ UNCHANGED <<category, ad_limit, initial_page, elems, final_df,
                   scrapped_ads, remaining_ads, error, served, at_limit>>
    /\ UNCHANGED <<fetch_vars, parse_vars, ad_vars>>

\* The for statement of scrap asks _pages_of_ads for the next page, and
\* _request_helper raises: the generator raises, and scrap with it.
PageFetchRaises ==
    /\ pc = "pages"
    /\ page_number' = page_number + 1
    /\ requests' = Append(requests, ListingRequest(category, page_number))
    /\ fetched' = Append(fetched, [got |-> "raised", yielded |-> FALSE])
    /\ fetch_failed' = TRUE
    /\ Raise(DetectionFailed)
    /\ UNCHANGED <<category, ad_limit, initial_page, elems, final_df,
                   scrapped_ads, remaining_ads, returned, served, at_limit>>
    /\ UNCHANGED <<fetch_vars, parse_vars, ad_vars>>

\* ... the page comes, and html.fromstring or tree.xpath raises.
PageUnparsable ==
    /\ pc = "pages"
    /\ \E p \in PagesAt(page_number) :
          /\ ~Parsable(p)
          /\ fetched' = Append(fetched, [got |-> p.marker, yielded |-> FALSE])
    /\ page_number' = page_number + 1
    /\ requests' = Append(requests, ListingRequest(category, page_number))
    /\ Raise(DetectionFailed)
    /\ UNCHANGED <<category, ad_limit, initial_page, elems, final_df,
                   scrapped_ads, remaining_ads, returned, served, at_limit,
                   fetch_failed>>
    /\ UNCHANGED <<fetch_vars, parse_vars, ad_vars>>

\* ... the page says there are no ads: the generator returns, the for statement
\* ends, and scrap returns final_df.
LastPage ==
    /\ pc = "pages"
    /\ \E p \in PagesAt(page_number) :
          /\ Parsable(p) /\ ~NotLastPage(p)
          /\ fetched' = Append(fetched, [got |-> p.marker, yielded |-> FALSE])
    /\ page_number' = page_number + 1
    /\ requests' = Append(requests, ListingRequest(category, page_number))
    /\ pc' = "returned"
    /\ returned' = Some(final_df)
    /\ UNCHANGED <<category, ad_limit, initial_page, elems, final_df,
                   scrapped_ads, remaining_ads, error, served, at_limit,
                   fetch_failed>>
    /\ UNCHANGED <<fetch_vars, parse_vars, ad_vars>>

\* ... the page is yielded.  scrap breaks and returns if not remaining_ads, and
\* otherwise starts _ads_in_a_page on the page.
PageYielded ==
    /\ pc = "pages"
    /\ \E p \in PagesAt(page_number) :
          /\ Parsable(p) /\ NotLastPage(p)
          /\ fetched' = Append(fetched, [got |-> p.marker, yielded |-> TRUE])
          /\ served' = served +
                Cardinality({i \in 1..Len(ElemsOf(p)) : ElemsOf(p)[i].text = "dollar"})
          /\ IF ~remaining_ads
             THEN /\ pc' = "returned"
                  /\ returned' = Some(final_df)
                  /\ elems' = elems
             ELSE /\ pc' = "ads"
                  /\ returned' = returned
                  /\ elems' = ElemsOf(p)
    /\ page_number' = page_number + 1
    /\ requests' = Append(requests, ListingRequest(category, page_number))
    /\ UNCHANGED <<category, ad_limit, initial_page, final_df, scrapped_ads,
                   remaining_ads, error, at_limit, fetch_failed>>
    /\ UNCHANGED <<fetch_vars, parse_vars, ad_vars>>

\* The inner for statement of scrap asks _ads_in_a_page for the next ad.
\* elem.get_text() raises: except: pass
ElemWithoutText ==
    /\ pc = "ads" /\ elems # <<>>
    /\ Head(elems).text = "none"
    /\ elems' = Tail(elems)
    /\ UNCHANGED <<pc, category, ad_limit, initial_page, page_number,
                   final_df, scrapped_ads, remaining_ads, error, requests, fetched,
                   returned, served, at_limit, fetch_failed>>
    /\ UNCHANGED <<fetch_vars, parse_vars, ad_vars>>

\* if '$' not in entry: continue
ElemNotAnAd ==
    /\ pc = "ads" /\ elems # <<>>
    /\ Head(elems).text = "plain"
    /\ elems' = Tail(elems)
    /\ UNCHANGED <<pc, category, ad_limit, initial_page, page_number,
                   final_df, scrapped_ads, remaining_ads, error, requests, fetched,
                   returned, served, at_limit, fetch_failed>>
    /\ UNCHANGED <<fetch_vars, parse_vars, ad_vars>>

\* elem.find_all('a')[1] raises IndexError, in the else clause of the try
AdWithoutSecondLink ==
    /\ pc = "ads" /\ elems # <<>>
    /\ Head(elems).text = "dollar"
    /\ Len(Head(elems).links) < 2
    /\ Raise(IndexError)
    /\ UNCHANGED <<category, ad_limit, initial_page, page_number, elems,
                   final_df, scrapped_ads, remaining_ads, requests, fetched,
                   returned, served, at_limit, fetch_failed>>
    /\ UNCHANGED <<fetch_vars, parse_vars, ad_vars>>

\* self._request_helper(ad_url) raises
AdFetchRaises ==
    /\ pc = "ads" /\ elems # <<>>
    /\ Head(elems).text = "dollar"
    /\ Len(Head(elems).links) >= 2
    /\ requests' = Append(requests, AdRequest(Head(elems).links[2]))
    /\ fetch_failed' = TRUE
    /\ Raise(CommunicationProblem)
    /\ UNCHANGED <<category, ad_limit, initial_page, page_number, elems,
                   final_df, scrapped_ads, remaining_ads, fetched, returned,
                   served, at_limit>>
    /\ UNCHANGED <<fetch_vars, parse_vars, ad_vars>>

\* The ad's page comes without div#pestanas, div#highlights or table.ar13gris.
AdBlockMissing ==
    /\ pc = "ads" /\ elems # <<>>
    /\ Head(elems).text = "dollar"
    /\ Len(Head(elems).links) >= 2
    /\ RaisingAdPages # {}
    /\ requests' = Append(requests, AdRequest(Head(elems).links[2]))
    /\ Raise(IndexError)
    /\ UNCHANGED <<category, ad_limit, initial_page, page_number, elems,
                   final_df, scrapped_ads, remaining_ads, fetched, returned,
                   served, at_limit, fetch_failed>>
    /\ UNCHANGED <<fetch_vars, parse_vars, ad_vars>>

\* The ad is yielded as a string; scrap turns it into a row, appends the row,
\* counts it and checks the limit.
AdScrapped ==
    /\ pc = "ads" /\ elems # <<>>
    /\ Head(elems).text = "dollar"
    /\ Len(Head(elems).links) >= 2
    /\ requests' = Append(requests, AdRequest(Head(elems).links[2]))
    /\ \E ad_text \in AdTexts[Head(elems).links[2]] :
          final_df' = Append(final_df, AdToDataframe[ad_text])
    /\ scrapped_ads' = scrapped_ads + 1
    /\ elems' = Tail(elems)
    /\ IF LimitReached(ad_limit, scrapped_ads + 1)
       THEN /\ remaining_ads' = FALSE
            /\ at_limit' = Len(requests) + 1
            /\ pc' = "pages"
       ELSE UNCHANGED <<remaining_ads, at_limit, pc>>
    /\ UNCHANGED <<category, ad_limit, initial_page, page_number, error,
                   fetched, returned, served, fetch_failed>>
    /\ UNCHANGED <<fetch_vars, parse_vars, ad_vars>>

\* _ads_in_a_page has no element left: the inner for statement ends.
PageDone ==
    /\ pc = "ads" /\ elems = <<>>
    /\ pc' = "pages"
    /\ UNCHANGED <<category, ad_limit, initial_page, page_number, elems,
                   final_df, scrapped_ads, remaining_ads, error, requests, fetched,
                   returned, served, at_limit, fetch_failed>>
    /\ UNCHANGED <<fetch_vars, parse_vars, ad_vars>>

CrawlIdle ==
    /\ pc = "idle" /\ category = "" /\ ad_limit = None /\ initial_page = 1
    /\ page_number = 0 /\ elems = <<>> /\ final_df = <<>>
    /\ scrapped_ads = 0 /\ remaining_ads = TRUE /\ error = "" /\ requests = <<>>
    /\ fetched = <<>> /\ returned = None /\ served = 0 /\ at_limit = -1
    /\ fetch_failed = FALSE

ParseIdle == ad = <<>> /\ df = None

AdIdle == ad_page = None /\ ad_as_string = None

Init == CrawlIdle /\ FetchIdle /\ ParseIdle /\ AdIdle

Next ==
    \/ \E c \in CategoryNames, limit \in AdLimits, p \in InitialPages : Scrap(c, limit, p)
    \/ PageFetchRaises
    \/ PageUnparsable
    \/ LastPage
    \/ PageYielded
    \/ ElemWithoutText
    \/ ElemNotAnAd
    \/ AdWithoutSecondLink
    \/ AdFetchRaises
    \/ AdBlockMissing
    \/ AdScrapped
    \/ PageDone

Spec == Init /\ [][Next]_vars

\* _request_helper alone
InitFetch == CrawlIdle /\ FetchIdle /\ ParseIdle /\ AdIdle
NextFetch ==
    \/ \E u \in Urls : RequestHelper(u)
    \/ GetReturns
    \/ GetRaises
    \/ RequestHelperEnds
SpecFetch == InitFetch /\ [][NextFetch]_vars

\* _venta_casas_ad_to_df alone, on texts made of a few fragments and on the
\* texts _ads_in_a_page yields
MaxFragments == 2
Fragments ==
    { <<"$", "1", ",", "7", " ", "pesos">>, <<"ZONA", ":", " ", "x">>,
      <<"COLONIA", ":", " ", "x", " ", "x">>, <<"7", " ", "visitas">>,
      <<"1", " ", "Planta">>, <<"7", ".", "1", "m²", " ", "de", " ", "Terreno">>,
      <<"1", " ", "Recámara">>, <<"1", ".", "7", " ", "Baño">>,
      <<"7", "m²", " ", "de", " ", "Construcción">>,
      <<"Publicado", " ", "x", " ", "1", " ", "de", " ", "x">>,
      <<"latitude", "=", "1", ".", "7">>, <<"longitude", "=", "-", "7">>,
      <<"http", ":", "x">>,
      <<"\n">>, <<" ">>, <<"1">>, <<"x">>, <<"$">>, <<".">>, <<"Baño">>,
      <<"Planta">>, <<"visitas">> }
Texts ==
    {Flatten(fs) : fs \in SeqsUpTo(Fragments, MaxFragments)}
        \cup AdTexts[AdUrl]

VentaCasasAdToDfCall ==
    /\ df = None
    /\ df' = Some(VentaCasasAdToDf(ad))
    /\ UNCHANGED <<ad, crawl_vars, fetch_vars, ad_vars>>

InitParse == CrawlIdle /\ FetchIdle /\ AdIdle /\ ad \in Texts /\ df = None
NextParse == VentaCasasAdToDfCall
SpecParse == InitParse /\ [][NextParse]_vars

\* The body of _ads_in_a_page alone, for one child that is an ad and whose page
\* _request_helper has returned: the string is built and yielded ...
AdYielded ==
    /\ ad_page # None /\ ad_as_string = None /\ error = ""
    /\ ~BlockMissing(ad_page[1])
    /\ ad_as_string' = Some(AdAsString(AdUrl, ad_page[1]))
    /\ UNCHANGED <<ad_page, crawl_vars, fetch_vars, parse_vars>>

\* ... or visitas[0], header_zona_colonia_precio[0] or table[0] raises IndexError.
AdIndexError ==
    /\ ad_page # None /\ ad_as_string = None /\ error = ""
    /\ BlockMissing(ad_page[1])
    /\ error' = IndexError
    /\ UNCHANGED <<pc, category, ad_limit, initial_page, page_number, elems,
                   final_df, scrapped_ads, remaining_ads, requests, fetched,
                   returned, served, at_limit, fetch_failed>>
    /\ UNCHANGED <<ad_page, ad_as_string, fetch_vars, parse_vars>>

InitAd ==
    /\ CrawlIdle /\ FetchIdle /\ ParseIdle
    /\ ad_page \in {Some(a) : a \in AdPages} /\ ad_as_string = None
NextAd ==
    \/ AdYielded
    \/ AdIndexError
SpecAd == InitAd /\ [][NextAd]_vars

(***************************************************************************)
(* The claims                                                              *)
(***************************************************************************)
Last(q) == q[Len(q)]
ListingRequests == SelectSeq(requests, LAMBDA r : r.kind = "listing")
NoAds == "No se encontraron avisos"

\* C1: for a category that is no key of the registry, scrap fails with the
\* unknown-category error, whatever ad_limit and initial_page are, and no request
\* (listing page or ad page) has been made when it fails.
C1_UnknownCategory ==
    (pc # "idle" /\ category \notin {"venta_casas_cdmx", "venta_casas_texas"}) =>
        /\ pc = "raised"
        /\ error = UnrecognizedCategory
        /\ requests = <<>>
        /\ returned = None

C1_Witness ==
    /\ pc = "raised" /\ error = UnrecognizedCategory
    /\ category = "venta_departamentos_cdmx"
    /\ ad_limit = Some(2) /\ initial_page = 2

\* C2: for every ad_limit L >= 0 and every source that serves at least L ads, the
\* table scrap returns has exactly L rows, and the accumulated rows never exceed L
\* while it crawls.
C2_ExactlyLimitRows ==
    (pc # "idle" /\ ad_limit # None /\ ad_limit[1] >= 0) =>
        /\ Len(final_df) <= ad_limit[1]
        /\ (returned # None /\ served >= ad_limit[1]) =>
               Len(returned[1]) = ad_limit[1]

\* C3: for every ad_limit L and every source that serves fewer than L ads before
\* its first no-results page, with every fetch succeeding (every listing page got
\* and read), scrap does not raise, and the table it returns has as many rows as
\* the source served ads (none when it served none).
C3_FewerAdsThanLimit ==
    (pc # "idle" /\ ~Unrecognized(category) /\ ad_limit # None
        /\ served < ad_limit[1] /\ ~fetch_failed /\ error # DetectionFailed) =>
        /\ pc # "raised"
        /\ returned # None => Len(returned[1]) = served

\* C4: once the record that reaches ad_limit is appended, scrap stops: no further
\* ad is extracted, no further listing or ad page is requested, and scrap returns
\* the table (nothing later can make it raise).
C4_StopsAtLimit ==
    ~remaining_ads =>
        /\ Len(requests) = at_limit
        /\ pc \in {"pages", "returned"}

\* C5: one call of _request_helper makes at most 10 GET attempts; it returns the
\* response of the first attempt that does not raise and makes no attempt after
\* it; it raises exactly when all 10 attempts raised; a backoff wait of 5 to 15
\* comes between consecutive attempts, and only after a failed attempt.
C5_BoundedRetry ==
    LET gets == {i \in 1..Len(events) : events[i] \in {"get_ok", "get_fail"}}
        oks == {i \in 1..Len(events) : events[i] = "get_ok"}
        done == rh_pc \in {"returned", "raised"}
    IN  /\ Cardinality(gets) <= 10
        /\ \A i \in oks : \A j \in gets : j <= i
        /\ rh_pc = "returned" =>
              /\ oks # {}
              /\ response = Some(Cardinality({j \in gets : j <= Min(oks)}))
        /\ rh_pc = "raised" <=> (done /\ oks = {} /\ Cardinality(gets) = 10)
        /\ \A i \in 1..Len(events) :
              events[i] = "backoff" => (i > 1 /\ events[i - 1] = "get_fail")
        /\ \A i \in gets, j \in gets :
              i < j => \E k \in (i + 1)..(j - 1) : events[k] = "backoff"
        /\ (events # <<>> /\ Last(events) = "backoff") => slept \in 5..15

C5_Witness ==
    /\ rh_pc = "returned"
    /\ response = Some(10)
    /\ Len(SelectSeq(events, LAMBDA e : e = "backoff")) = 9

\* C6: for a category and initial_page p, _pages_of_ads requests the listing pages
\* p, p+1, p+2, ... in order, each once, the number put into the category's URL;
\* it yields each page it got that does not say "no ads", and at the first page
\* that says so it ends, without yielding it and without a later request.
C6_PagesInOrder ==
    (pc # "idle" /\ ~Unrecognized(category)) =>
        /\ Len(ListingRequests) = Len(fetched)
        /\ \A i \in 1..Len(ListingRequests) :
              ListingRequests[i].url =
                  [base |-> "Resultados-Inmuebles.aspx",
                   plaza |-> IF category = "venta_casas_cdmx" THEN 1 ELSE 34,
                   pagina |-> initial_page + i - 1]
        /\ \A i \in 1..Len(fetched) :
              /\ fetched[i].yielded <=> fetched[i].got \notin {"raised", "unparsable", NoAds}
              /\ fetched[i].got = NoAds => (i = Len(fetched) /\ pc = "returned")
        /\ page_number = initial_page + Len(fetched)

C6_Witness ==
    /\ pc = "returned" /\ category = "venta_casas_texas" /\ initial_page = 1
    /\ Len(fetched) = 3
    /\ fetched[1].yielded /\ fetched[2].yielded
    /\ fetched[3].got = NoAds /\ ~fetched[3].yielded

\* C7: if the fetch of a listing page fails (after the retries of the Fetcher) or
\* its marker cannot be read, _pages_of_ads raises the pagination error: the page
\* is not yielded, it is not requested again, and scrap raises too and returns no
\* table, whatever it has accumulated.
C7_PaginationError ==
    \A i \in 1..Len(fetched) :
        fetched[i].got \in {"raised", "unparsable"} =>
            /\ i = Len(fetched)
            /\ ~fetched[i].yielded
            /\ Len(ListingRequests) = i
            /\ Last(requests).kind = "listing"
            /\ pc = "raised"
            /\ error = DetectionFailed
            /\ returned = None

C7_Witness ==
    /\ pc = "raised" /\ error = DetectionFailed
    /\ Len(fetched) = 2 /\ fetched[2].got = "raised"
    /\ Len(final_df) = 2
    /\ returned = None

\* C8: when every fetch succeeds, no error leaves _ads_in_a_page: a child with '$'
\* and fewer than two hyperlinks, or an ad page without the visits block, the
\* highlights block or the info table, is skipped or leaves fields null.
C8_MalformedAdTolerated ==
    (pc = "raised" /\ error \notin {UnrecognizedCategory, DetectionFailed}) =>
        fetch_failed

\* C9: every record of the Field Parser, for every text (the empty one and one
\* that matches nothing too), has the thirteen keys precio, zona, colonia,
\* visitas, plantas, m2_terreno, recámaras, baños, m2_constr, fecha_pub, latitude,
\* longitude, url, in this order, each a string or null.
C9_ThirteenKeys ==
    df # None =>
        /\ df[1].keys = <<"precio", "zona", "colonia", "visitas", "plantas",
                          "m2_terreno", "recámaras", "baños", "m2_constr",
                          "fecha_pub", "latitude", "longitude", "url">>
        /\ DOMAIN df[1].val = Range(df[1].keys)
        /\ Cardinality(DOMAIN df[1].val) = 13
        /\ \A k \in DOMAIN df[1].val :
              \/ df[1].val[k] = None
              \/ Len(df[1].val[k]) = 1 /\ df[1].val[k][1] \in Seq(Symbol)

C9_Witness ==
    /\ df # None
    /\ ad = <<"1", ".", "7", " ", "Baño", "1", " ", "Planta">>
    /\ df[1].val["baños"] = Some(<<"1", ".", "7">>)
    /\ df[1].val["precio"] = None

\* C10: each field comes from its own matcher alone: it is null exactly when its
\* pattern has no match in the text (bathrooms, for one, in every text without
\* "Baño"), and is the capture group of the first match otherwise, whatever the
\* other patterns match.
PatternOf ==
    [k \in Range(columns) |->
        CASE k = "precio" -> PrecioRe
          [] k = "zona" -> ZonaRe
          [] k = "colonia" -> ColoniaRe
          [] k = "visitas" -> VisitasRe
          [] k = "plantas" -> PlantasRe
          [] k = "m2_terreno" -> M2TerrenoRe
          [] k = "recámaras" -> RecamarasRe
          [] k = "baños" -> BanosRe
          [] k = "m2_constr" -> M2ConstrRe
          [] k = "fecha_pub" -> FechaPubRe
          [] k = "latitude" -> LatitudeRe
          [] k = "longitude" -> LongitudeRe
          [] OTHER -> UrlRe]

C10_FieldsIndependent ==
    df # None =>
        /\ \A k \in Range(columns) :
              LET m == ReSearch(PatternOf[k], ad)
              IN  df[1].val[k] = IF m = None THEN None
                                 ELSE Some(Group1(PatternOf[k], ad, m))
        /\ "Baño" \notin Range(ad) => df[1].val["baños"] = None

C10_Witness ==
    /\ df # None
    /\ ad = <<"$", "1", ",", "7", " ", "pesos", "1", " ", "Recámara">>
    /\ df[1].val["precio"] = Some(<<"1", ",", "7", " ", "pesos", "1">>)
    /\ df[1].val["recámaras"] = Some(<<"1">>)
    /\ df[1].val["baños"] = None

\* C11: for every ad's page, the text the extractor builds ends with the lines
\* latitude=<value> and longitude=<value> exactly when a div#divMapa holding both
\* the LatitudGM and the LongitudGM marker is present; when there is no such div,
\* or it holds one marker only, neither line is added, the ad is yielded with all
\* its other parts, and no error is raised.
GeoLines == <<"latitude", "=">> \o LatText \o <<"\n">> \o
            <<"longitude", "=">> \o LonText \o <<"\n">>
OtherParts == AdUrl \o <<"\n">> \o PestanasText \o <<"\n">> \o HighlightsText \o
              <<"\n">> \o InfoText \o <<"\n">> \o Lines(CaracTexts)
EndsWith(text, tail) ==
    /\ Len(text) >= Len(tail)
    /\ SubSeq(text, Len(text) - Len(tail) + 1, Len(text)) = tail
BothMarkers(divs) ==
    \E i \in 1..Len(divs) : {"LatitudGM", "LongitudGM"} \subseteq Range(divs[i])
C11_GeolocationLines ==
    (ad_page # None /\ (ad_as_string # None \/ error # "")) =>
        /\ BothMarkers(ad_page[1].mapa) =>
               /\ ad_as_string # None
               /\ EndsWith(ad_as_string[1], GeoLines)
        /\ ~BothMarkers(ad_page[1].mapa) =>
               /\ error = ""
               /\ ad_as_string = Some(OtherParts)

\* C12: of the cells that find_all selects by the class ar12grisb, _ads_in_a_page
\* skips those that do not carry the class ar12gris itself: it visits no child of
\* such a cell (so it inspects none, requests no ad page for it and yields no text
\* from it); every child it visits is a child of a cell that carries ar12gris.
C12_UnmarkedCellsSkipped ==
    pc = "ads" => \A i \in 1..Len(elems) : "ar12gris" \in Range(elems[i].td)

====
